---- MODULE Spec2Model ----
(***************************************************************************)
(* A model of botogram's routing core: the Bot command registry and        *)
(* command router (botogram/bot.py), the hook variants (botogram/hooks.py) *)
(* and the payment hook chains (botogram/payments.py).                     *)
(*                                                                         *)
(* Texts are sequences of one-character strings, so that the regular       *)
(* expressions and the splits of the source are computed character by      *)
(* character.                                                              *)
(***************************************************************************)
EXTENDS Integers, Sequences, FiniteSets, TLC

(***************************************************************************)
(* Bounds of the model.                                                    *)
(***************************************************************************)
\* the largest number of arguments of a generated command message
MaxArgs == 2
\* the largest page size of an inline hook
MaxPaginate == 2
\* the largest number of inline queries that are dispatched
MaxQueries == 3
\* the largest length of a generator that ends
MaxItems == 3
\* more items than any page of the model reaches
Endless == 1000
\* the largest number of before-processing hooks, of processors that the
\* application registers, and of hooks in a payment chain
MaxHooks == 2
\* the most words a generated message text has
MaxWords == 3

(***************************************************************************)
(* Characters and texts.                                                   *)
(***************************************************************************)
SP == " "
TAB == "\t"
NL == "\n"

\* the characters of [a-zA-Z0-9_] that the model's texts use
NameChars ==
    {"a", "b", "d", "e", "f", "h", "l", "o", "p", "r", "s", "t", "x", "z",
     "_"}

Foo == <<"f", "o", "o">>
Zed == <<"z", "e", "d">>
Help == <<"h", "e", "l", "p">>
Start == <<"s", "t", "a", "r", "t">>
Bar == <<"b", "a", "r">>
Baz == <<"b", "a", "z">>

\* self.itself.username, as getMe returned it
Username == <<"b", "o", "t">>
\* the usernames of other bots: one has this bot's username as a prefix
OtherNames == {<<"b", "o", "t", "x">>, <<"o", "t", "h">>}

\* s[i..] (1-based), the empty text when i is past the end
Drop(s, i) == IF i > Len(s) THEN <<>> ELSE SubSeq(s, i, Len(s))

\* whether p is a prefix of s
StartsWith(s, p) == Len(p) <= Len(s) /\ SubSeq(s, 1, Len(p)) = p

\* str.replace(old, new) for one-character old and new
Replace(s, old, new) == [i \in 1..Len(s) |-> IF s[i] = old THEN new ELSE s[i]]

\* the index of the first occurrence of c in s from index i on, 0 when none
RECURSIVE Find(_, _, _)
Find(s, c, i) ==
    IF i > Len(s) THEN 0
    ELSE IF s[i] = c THEN i
    ELSE Find(s, c, i + 1)

\* str.split(" "): cut at every single separator, empty pieces kept
RECURSIVE Split(_, _)
Split(s, sep) ==
    LET k == Find(s, sep, 1)
    IN  IF k = 0 THEN <<s>>
        ELSE <<SubSeq(s, 1, k - 1)>> \o Split(Drop(s, k + 1), sep)

\* the length of the run of c that starts at index i of s
RECURSIVE RunLen(_, _, _)
RunLen(s, c, i) ==
    IF i > Len(s) \/ s[i] # c THEN 0 ELSE 1 + RunLen(s, c, i + 1)

\* re.compile(r' +').split(text): cut at every maximal run of spaces; a run
\* at the start or at the end leaves an empty piece there
RECURSIVE SplitRuns(_)
SplitRuns(s) ==
    LET k == Find(s, SP, 1)
    IN  IF k = 0 THEN <<s>>
        ELSE <<SubSeq(s, 1, k - 1)>> \o SplitRuns(Drop(s, k + RunLen(s, SP, k)))

\* the length of the longest prefix of s from index i made of [a-zA-Z0-9_]
RECURSIVE NameLen(_, _)
NameLen(s, i) ==
    IF i > Len(s) \/ s[i] \notin NameChars THEN 0 ELSE 1 + NameLen(s, i + 1)

\* Python's "$" without re.MULTILINE at the rest r of the text: the end of
\* the text, or just before a newline that ends it
AtDollar(r) == r = <<>> \/ r = <<NL>>

\* "( .*)?$" at the rest r of the text: "." matches no newline
TailMatches(r) ==
    \/ AtDollar(r)
    \/ /\ r # <<>>
       /\ r[1] = SP
       /\ LET k == Find(r, NL, 2) IN k = 0 \/ k = Len(r)

(***************************************************************************)
(* The state.                                                              *)
(***************************************************************************)
VARIABLES
    \* Bot: self._commands, a function from the registered names to handlers
    commands,
    \* Bot: the names captured by the "apply" closures that command(name)
    \* has returned and that the application still holds
    appliers,
    \* Bot: self.about and self.owner
    about,
    owner,
    \* history: the handler that the first successful registration of each
    \* name stored
    firstOwner,
    \* the last registration call and how it ended
    lastReg,
    \* the last routed message and what the router or the hook did with it
    last,
    \* Bot: self._before_hooks and self._processors, in registration order
    before_hooks,
    processors,
    \* the dispatch in progress: where it stands ("idle", "running", "done"
    \* when it returned, "raised" when an exception left it), which function
    \* runs it, the update, the list the for loop walks, the index of the
    \* next hook, and the hooks invoked so far with what each returned
    pc,
    entry,
    upd,
    chain,
    idx,
    log,
    \* the worker processes of the runner
    pool,
    \* InlineHook: self.paginate, 0 as long as the hook is not made
    paginate,
    \* the pagination state that the IPC commands inline.get, inline.update
    \* and inline.purge work on: sender id -> offset
    store,
    \* history: the next_offset of the last answer to each sender, 0 if none
    issued,
    \* history: the number of inline queries dispatched so far
    started,
    \* each worker's call of InlineHook._call: where it stands, the query's
    \* sender and offset, the offset read from the store, the answer, the
    \* calls made so far (handler, store commands, answer), and
    \* whether self._ipc is set in that process
    wk,
    \* the call of one hook in progress: the hook, its arguments, the update,
    \* where the call stands, the handler calls made and how the call ended
    hk,
    \* the Context objects whose with block is entered and not yet left,
    \* innermost last: each is the hook it was made for
    ctx,
    \* the Hook objects constructed so far, in the order of construction
    hooks,
    \* the hooks reconstructed from a serialized reference: each with the hook
    \* that was serialized
    rebuilt

cmdVars == <<commands, appliers, about, owner, firstOwner, lastReg, last>>
chainVars == <<before_hooks, processors, pc, entry, upd, chain, idx, log>>
inlineVars == <<pool, paginate, store, issued, started, wk>>
hookVars == <<hk, ctx>>
buildVars == <<hooks, rebuilt>>
vars == <<cmdVars, chainVars, inlineVars, hookVars, buildVars>>

\* what the actions of one part of the model leave alone
notCmd == <<chainVars, inlineVars, hookVars, buildVars>>
notInline == <<cmdVars, chainVars, hookVars, buildVars>>
notChain ==
    <<appliers, about, owner, firstOwner, lastReg, last, inlineVars, hookVars,
      buildVars>>
notHook == <<cmdVars, chainVars, inlineVars, buildVars>>
notBuild == <<cmdVars, chainVars, inlineVars, hookVars>>

(***************************************************************************)
(* Handlers.  "f" and "g" are functions of the application; "f" has a      *)
(* docstring and "g" has none.  5 stands for a value that is not callable. *)
(***************************************************************************)
UserHandlers == {"f", "g"}
NotCallable == "5"
Builtins == {"_default_help_command", "_default_start_command"}

\* callable(func) answering True for everything
EverythingCallable(func) == TRUE

\* callable(func)
callable(func) == func # NotCallable

\* Bot.__init__: self._default_commands
default_commands ==
    (Help :> "_default_help_command") @@ (Start :> "_default_start_command")

\* Bot._get_commands with the update applied the wrong way round
GetCommandsDefaultsWin(cmds) == default_commands @@ cmds

\* Bot._get_commands: the built-in commands, overridden by the registered ones
GetCommands(cmds) == cmds @@ default_commands

\* The command router's regular expression,
\*     ^\/([a-zA-Z0-9_]+)(@<username>)?( .*)?$
\* matched as re.match does: group 1 is greedy and nothing it gives back can
\* start group 2, group 3 or "$", so the match is decided by the longest name.
NoMatch == [matched |-> FALSE, command |-> <<>>, group2 |-> FALSE]

\* a router regex that accepts the username of any bot in group 2
CommandsReAnyBot(text) ==
    LET n == NameLen(text, 2)
        afterName == Drop(text, 2 + n)
        m == NameLen(afterName, 2)
    IN  IF text = <<>> \/ text[1] # "/" \/ n = 0 THEN NoMatch
        ELSE IF /\ afterName # <<>>
                /\ afterName[1] = "@"
                /\ m > 0
                /\ TailMatches(Drop(afterName, 2 + m))
        THEN [matched |-> TRUE, command |-> SubSeq(text, 2, 1 + n),
              group2 |-> TRUE]
        ELSE IF TailMatches(afterName)
        THEN [matched |-> TRUE, command |-> SubSeq(text, 2, 1 + n),
              group2 |-> FALSE]
        ELSE NoMatch

CommandsReMatch(text) ==
    LET n == NameLen(text, 2)
        afterName == Drop(text, 2 + n)
        mention == <<"@">> \o Username
    IN  IF text = <<>> \/ text[1] # "/" \/ n = 0 THEN NoMatch
        ELSE IF /\ StartsWith(afterName, mention)
                /\ TailMatches(Drop(afterName, Len(mention) + 1))
        THEN [matched |-> TRUE, command |-> SubSeq(text, 2, 1 + n),
              group2 |-> TRUE]
        ELSE IF TailMatches(afterName)
        THEN [matched |-> TRUE, command |-> SubSeq(text, 2, 1 + n),
              group2 |-> FALSE]
        ELSE NoMatch

(***************************************************************************)
(* The replies of the built-in commands.  A reply is the sequence of the   *)
(* lines that chat.send joins; a line is its format string with the name   *)
(* and the documentation text put into it.                                 *)
(***************************************************************************)
Line(fmt, name, doc) == [fmt |-> fmt, name |-> name, doc |-> doc]

\* func.__doc__ of each handler ("" when the function has none), and what
\* func.__doc__.strip().split("\n", 1)[0] keeps of it
Doc(h) ==
    CASE h = "_default_help_command" ->
            <<"Show this help message",
              "You can also use '/help <command>' to get help about a command.">>
      [] h = "_default_start_command" ->
            <<"Start using the bot.", "It shows a greeting message.">>
      [] h = "f" -> <<"Do f.", "More about f.">>
      [] OTHER -> <<>>

\* the code points' order of the characters the model uses
CharOrder ==
    <<SP, "/", "@", "_", "a", "b", "e", "f", "h", "l", "o", "p", "r", "s",
      "t", "x", "z">>

Ord(c) == CHOOSE i \in 1..Len(CharOrder) : CharOrder[i] = c

\* a < b as Python compares two str
RECURSIVE StrLess(_, _)
StrLess(a, b) ==
    IF b = <<>> THEN FALSE
    ELSE IF a = <<>> THEN TRUE
    ELSE IF a[1] # b[1] THEN Ord(a[1]) < Ord(b[1])
    ELSE StrLess(Tail(a), Tail(b))

\* sorted(names)
RECURSIVE Sorted(_)
Sorted(names) ==
    IF names = {} THEN <<>>
    ELSE LET least == CHOOSE a \in names :
                          \A b \in names \ {a} : StrLess(a, b)
         IN  <<least>> \o Sorted(names \ {least})

\* the owner lines that end a help reply, fmt being the reply's own wording
OwnerLines(fmt) ==
    IF owner # ""
    THEN <<Line(" ", <<>>, ""), Line(fmt, <<>>, owner)>>
    ELSE <<>>

\* Bot._generic_help_message
generic_help_message(cmds, all) ==
    LET names == Sorted(DOMAIN all)
        listing ==
            [i \in 1..Len(names) |->
                Line("/%s - %s", names[i],
                     IF Doc(all[names[i]]) = <<>>
                     THEN "No description available."
                     ELSE Doc(all[names[i]])[1])]
    IN  (IF about # ""
         THEN <<Line("%s", <<>>, about), Line("", <<>>, "")>>
         ELSE <<>>)
        \o (IF Cardinality(DOMAIN cmds) > 0
            THEN <<Line("Available commands:", <<>>, "")>>
                 \o listing
                 \o <<Line("Use /help <command> if you need help about a specific command.",
                           <<>>, "")>>
            ELSE <<Line("No commands available.", <<>>, "")>>)
        \o OwnerLines("Please contact %s if you have problems with this bot.")

\* Bot._command_help_message
command_help_message(all, command) ==
    (IF Doc(all[command]) # <<>>
     THEN <<Line("/%s - %s", command, "format_docstr(__doc__)")>>
     ELSE <<Line("No help messages for the /%s command.", command, "")>>)
    \o OwnerLines("Please contact %s if you have problems with this bot")

\* Bot._default_help_command refusing every argument
AnyArgs(args) == Len(args) > 0

\* Bot._default_help_command: if len(args) > 1
TooManyArgs(args) == Len(args) > 1

\* Bot._default_help_command: the reply it sends
default_help_command(cmds, args) ==
    LET all == GetCommands(cmds)
    IN  IF TooManyArgs(args)
        THEN <<Line("Error: the /help command allows up to one argument.",
                    <<>>, "")>>
        ELSE IF Len(args) = 1
        THEN IF args[1] \in DOMAIN all
             THEN command_help_message(all, args[1])
             ELSE <<Line("Error: Unknow command: /%s", args[1], ""),
                    Line("Use /help for a list of commands.", <<>>, "")>>
        ELSE generic_help_message(cmds, all)

\* Bot._default_start_command: the reply it sends
default_start_command ==
    (IF about # "" THEN <<Line("%s", <<>>, about)>> ELSE <<>>)
    \o <<Line("Use /help to get a list of all the commands", <<>>, "")>>

\* the replies that calling handler h with args sends to the chat: each
\* built-in sends one, and the application's handlers are taken to send none
HandlerSends(h, cmds, args) ==
    CASE h = "_default_help_command" -> <<default_help_command(cmds, args)>>
      [] h = "_default_start_command" -> <<default_start_command>>
      [] OTHER -> <<>>

\* the notice for a command that nobody registered
UnknownNotice(command) ==
    <<Line("Unknow command /%s.", command, ""),
      Line("Use /help for a list of commands.", <<>>, "")>>

\* a router that returns True once it has sent the notice
ClaimsAfterNotice(noticed) == IF noticed THEN "True" ELSE "None"

\* what _process_commands returns for a command that nobody registered: the
\* elif branch and the end of the function have no return statement
UnknownReturns(noticed) == "None"

(***************************************************************************)
(* Bot._process_commands(chat, message): the outcome of one call.          *)
(* result is what the call returns ("True" or "None"), or "raise" when the *)
(* handler raised; calls are the handler invocations, sent the replies.    *)
(* raising is the set of handlers that raise when called.                  *)
(***************************************************************************)
Outcome(result, calls, sent) ==
    [result |-> result, calls |-> calls, sent |-> sent]

ProcessCommands(cmds, chat, message, raising) ==
    IF ~message.has_text THEN Outcome("None", <<>>, <<>>)
    ELSE
    LET match == CommandsReMatch(message.text)
        command == match.command
        splitted == Split(message.text, SP)
        args == Tail(splitted)
        mentioned == splitted[1] = <<"/">> \o command \o <<"@">> \o Username
        all == GetCommands(cmds)
    IN  IF ~match.matched THEN Outcome("None", <<>>, <<>>)
        ELSE IF command \in DOMAIN all
        THEN IF all[command] \in raising
             THEN Outcome("raise", <<[handler |-> all[command], args |-> args]>>,
                          <<>>)
             ELSE Outcome("True", <<[handler |-> all[command], args |-> args]>>,
                          HandlerSends(all[command], cmds, args))
        ELSE IF chat = "User" \/ mentioned
        THEN Outcome(UnknownReturns(TRUE), <<>>, <<UnknownNotice(command)>>)
        ELSE Outcome(UnknownReturns(FALSE), <<>>, <<>>)

(***************************************************************************)
(* CommandHook (hooks.py).                                                 *)
(***************************************************************************)
\* CommandHook._after_init: the hook's regular expression,
\*     ^\/<name>(@[a-zA-Z0-9_]+)?( .*)?$
\* group1 is the text of group 1, "@" included, and <<>> when it is absent
HookReMatch(name, text) ==
    LET after == Drop(text, 2 + Len(name))
        m == NameLen(after, 2)
    IN  IF ~StartsWith(text, <<"/">> \o name)
        THEN [matched |-> FALSE, group1 |-> <<>>]
        ELSE IF /\ after # <<>>
                /\ after[1] = "@"
                /\ m > 0
                /\ TailMatches(Drop(after, 2 + m))
        THEN [matched |-> TRUE, group1 |-> SubSeq(after, 1, 1 + m)]
        ELSE IF TailMatches(after)
        THEN [matched |-> TRUE, group1 |-> <<>>]
        ELSE [matched |-> FALSE, group1 |-> <<>>]

\* CommandHook._call(bot, update)
CommandHook_call(name, func, message) ==
    LET text == Replace(Replace(message.text, NL, SP), TAB, SP)
        match == HookReMatch(name, text)
    IN  IF ~match.matched THEN Outcome("None", <<>>, <<>>)
        ELSE IF match.group1 # <<>> /\ match.group1 # <<"@">> \o Username
        THEN Outcome("None", <<>>, <<>>)
        ELSE Outcome("True",
                     <<[handler |-> func, args |-> Tail(SplitRuns(text))]>>,
                     <<>>)

\* Hook.call for a hook with _only_texts: a message without text is skipped
OnlyTextsCall(message, outcome) ==
    IF ~message.has_text THEN Outcome("None", <<>>, <<>>) ELSE outcome

(***************************************************************************)
(* The messages that the model routes.  A command message is "/" and a     *)
(* name, an optional "@" and a username, then the arguments, each after a  *)
(* run of separators, then what trails the last argument.                  *)
(***************************************************************************)
\* the names that Bot.command is called with
RegNames == {Foo, Help, Start}
\* the names that command messages carry
TextNames == {Foo, Help, Start, Zed}
\* the chats: a User is a private chat
Chats == {"User", "GroupChat"}
\* the runs that separate two arguments
SepRuns == {<<SP>>, <<SP, SP>>, <<TAB>>, <<NL>>}
\* what follows the last argument
Trailings == {<<>>, <<NL>>}
\* the k-th argument of a generated message
Word(k) == IF k % 2 = 1 THEN Bar ELSE Baz

SepLists == UNION {[1..n -> SepRuns] : n \in 0..MaxArgs}

CommandInputs ==
    [name : TextNames, mention : {<<>>, Username} \cup OtherNames,
     seps : SepLists, trailing : Trailings]

RECURSIVE Pieces(_, _)
Pieces(seps, k) ==
    IF k > Len(seps) THEN <<>> ELSE seps[k] \o Word(k) \o Pieces(seps, k + 1)

\* the text of a command message
TextOf(in) ==
    <<"/">> \o in.name
    \o (IF in.mention = <<>> THEN <<>> ELSE <<"@">> \o in.mention)
    \o Pieces(in.seps, 1) \o in.trailing

\* the arguments the message was built from
ArgsOf(in) == [k \in 1..Len(in.seps) |-> Word(k)]

\* a message that is no command, and a message without text
Plain == [has_text |-> TRUE, text |-> Bar \o <<SP>> \o Baz]
NoText == [has_text |-> FALSE, text |-> <<>>]

(***************************************************************************)
(* Bot.command: the registration of commands.                              *)
(***************************************************************************)
EmptyRegistry == [n \in {} |-> "f"]
NoReg == [op |-> "none", name |-> <<>>, func |-> "", outcome |-> ""]
NoLast == [kind |-> "none"]
NoUpdate == [is_update |-> FALSE, chat |-> "", message |-> NoText]

\* no call is in progress: the application is between two calls
Idle == last = NoLast /\ lastReg = NoReg /\ pc = "idle"

RegOutcome(op, name, func, outcome) ==
    [op |-> op, name |-> name, func |-> func, outcome |-> outcome]

\* the "apply" closure of Bot.command: self._commands[name] = func
ApplyStore(cmds, name, func) ==
    [n \in DOMAIN cmds \cup {name} |-> IF n = name THEN func ELSE cmds[n]]

\* the first owner of each name, after name has been stored with func
NoteOwner(name, func) ==
    IF name \in DOMAIN firstOwner THEN firstOwner
    ELSE [n \in DOMAIN firstOwner \cup {name} |->
             IF n = name THEN func ELSE firstOwner[n]]

\* Bot.command(name, func): the check, then apply(func)
CommandDirect ==
    \E name \in RegNames, func \in UserHandlers \cup {NotCallable} :
        /\ Idle
        /\ IF name \in DOMAIN commands
           THEN /\ lastReg' = RegOutcome("command", name, func, "NameError")
                /\ UNCHANGED <<commands, firstOwner>>
           ELSE IF ~callable(func)
           THEN /\ lastReg' = RegOutcome("command", name, func, "ValueError")
                /\ UNCHANGED <<commands, firstOwner>>
           ELSE /\ commands' = ApplyStore(commands, name, func)
                /\ firstOwner' = NoteOwner(name, func)
                /\ lastReg' = RegOutcome("command", name, func, "stored")
        /\ last' = NoLast
        /\ UNCHANGED <<appliers, about, owner, notCmd>>

\* Bot.command(name): the check, then the closure is returned
CommandDecorator ==
    \E name \in RegNames :
        /\ Idle
        /\ IF name \in DOMAIN commands
           THEN /\ lastReg' = RegOutcome("decorator", name, "", "NameError")
                /\ UNCHANGED appliers
           ELSE /\ appliers' = appliers \cup {name}
                /\ lastReg' = RegOutcome("decorator", name, "", "returned")
        /\ last' = NoLast
        /\ UNCHANGED <<commands, firstOwner, about, owner, notCmd>>

\* apply(func), called on a closure that Bot.command(name) returned
Apply ==
    \E name \in appliers, func \in UserHandlers \cup {NotCallable} :
        /\ Idle
        /\ IF ~callable(func)
           THEN /\ lastReg' = RegOutcome("apply", name, func, "ValueError")
                /\ UNCHANGED <<commands, firstOwner>>
           ELSE /\ commands' = ApplyStore(commands, name, func)
                /\ firstOwner' = NoteOwner(name, func)
                /\ lastReg' = RegOutcome("apply", name, func, "stored")
        /\ last' = NoLast
        /\ UNCHANGED <<appliers, about, owner, notCmd>>

(***************************************************************************)
(* Routing one message.                                                    *)
(***************************************************************************)
Routed(kind, in, chat, message, out) ==
    [kind |-> kind, in |-> in, chat |-> chat, message |-> message, out |-> out]

\* Bot._process_commands on a command message
RouteCommand ==
    \E in \in CommandInputs, chat \in Chats :
        LET message == [has_text |-> TRUE, text |-> TextOf(in)]
        IN  /\ Idle
            /\ last' = Routed("router", in, chat, message,
                              ProcessCommands(commands, chat, message, {}))
            /\ lastReg' = NoReg
            /\ UNCHANGED <<commands, appliers, about, owner, firstOwner, notCmd>>

\* Bot._process_commands on a message that is no command
RouteOther ==
    \E message \in {Plain, NoText}, chat \in Chats :
        /\ Idle
        /\ last' = [kind |-> "other", chat |-> chat, message |-> message,
                    out |-> ProcessCommands(commands, chat, message, {})]
        /\ lastReg' = NoReg
        /\ UNCHANGED <<commands, appliers, about, owner, firstOwner, notCmd>>

\* Hook.call of the CommandHook registered for /foo with handler "f"
CommandHookCall ==
    \E in \in CommandInputs :
        LET message == [has_text |-> TRUE, text |-> TextOf(in)]
        IN  /\ Idle
            /\ last' = Routed("hook", in, "User", message,
                              OnlyTextsCall(message,
                                            CommandHook_call(Foo, "f", message)))
            /\ lastReg' = NoReg
            /\ UNCHANGED <<commands, appliers, about, owner, firstOwner, notCmd>>

\* the call has returned or raised, and the application goes on
Returned ==
    /\ last # NoLast \/ lastReg # NoReg
    /\ last' = NoLast
    /\ lastReg' = NoReg
    /\ UNCHANGED <<commands, appliers, about, owner, firstOwner, notCmd>>

\* Bot.__init__
InitBot ==
    /\ commands = EmptyRegistry
    /\ appliers = {}
    /\ about = ""
    /\ owner = ""
    /\ firstOwner = EmptyRegistry
    /\ lastReg = NoReg
    /\ last = NoLast
    /\ before_hooks = <<>>
    /\ processors = <<"_process_commands">>
    /\ pc = "idle"
    /\ entry = ""
    /\ upd = NoUpdate
    /\ chain = <<>>
    /\ idx = 0
    /\ log = <<>>

\* the worker processes and the senders of inline queries
Workers == {1, 2}
Senders == {"A", "B"}

NoAnswer == [results |-> <<>>, next_offset |-> 0, n |-> 0]
IdleWorker(ipc) ==
    [pc |-> "idle", sender |-> "", qoffset |-> "", offset |-> 0,
     answer |-> NoAnswer, conc |-> {}, ops |-> <<>>, ipc |-> ipc]

\* the state of the inline part when nothing has run yet, with a pool of
\* k worker processes
InitInline(k) ==
    /\ pool = 1..k
    /\ paginate = 0
    /\ store = [x \in {} |-> 0]
    /\ issued = [x \in Senders |-> 0]
    /\ started = 0
    /\ wk = [w \in Workers |-> IdleWorker(FALSE)]

\* no hook is being called and no context is entered
IdleHook ==
    [pc |-> "idle", variant |-> "", has_text |-> FALSE,
     in |-> [words |-> <<>>, seps |-> <<>>, trailing |-> <<>>],
     string |-> <<>>, ignore_case |-> FALSE, multiple |-> FALSE,
     has_query |-> FALSE, name_ok |-> FALSE,
     pos |-> 1, res |-> 0, calls |-> 0, passed |-> <<>>, inctx |-> TRUE,
     result |-> "None",
     answered |-> FALSE, noop |-> FALSE, outcome |-> ""]

InitHook ==
    /\ hk = IdleHook
    /\ ctx = <<>>

\* no Hook object is constructed yet
InitBuild ==
    /\ hooks = <<>>
    /\ rebuilt = <<>>

Init == InitBot /\ InitInline(2) /\ InitHook /\ InitBuild

\* Registration alone, in both forms of Bot.command.
NextReg ==
    \/ CommandDirect
    \/ CommandDecorator
    \/ Apply
    \/ Returned

SpecReg == Init /\ [][NextReg]_vars

\* Registration and routing.  Routing reads self._commands alone, and the
\* direct form of Bot.command reaches every value of it that the decorator
\* form reaches, so the closures are left to SpecReg.
NextCmd ==
    \/ CommandDirect
    \/ RouteCommand
    \/ RouteOther
    \/ CommandHookCall
    \/ Returned

SpecCmd == Init /\ [][NextCmd]_vars

(***************************************************************************)
(* InlineHook and the pagination store.                                    *)
(***************************************************************************)
\* the lengths that the handler's generator can turn out to have; Endless
\* stands for a generator that does not end within the pages asked for
ItemCounts == (0..MaxItems) \cup {Endless}

\* the store, which lives in the runner's IPC process: get gives 0 for a
\* sender without state, update writes, purge drops the sender's state
StoreGet(st, sender) == IF sender \in DOMAIN st THEN st[sender] ELSE 0
StoreUpdate(st, sender, value) ==
    [x \in DOMAIN st \cup {sender} |-> IF x = sender THEN value ELSE st[x]]
StorePurge(st, sender) == [x \in DOMAIN st \ {sender} |-> st[x]]

\* every sender's state kept under one key
IpcKeyShared(sender) == "A"

\* _ipc_get, _ipc_update, _ipc_purge: the commands are sent with sender.id
IpcKey(sender) == sender

\* InlineHook._call purging for every query
IssuesPurgeAlways(qoffset) == TRUE

\* InlineHook._call: if inline.offset == ''
IssuesPurge(qoffset) == qoffset = ""

\* InlineHook._call without the purge
NeverPurged(st, sender, qoffset) == st

\* InlineHook._call: if inline.offset == '': self._ipc_purge(sender)
PurgedIfEmpty(st, sender, qoffset) ==
    IF IssuesPurge(qoffset) THEN StorePurge(st, sender) ELSE st

\* next(sliced) for the k-th time (k from 0), sliced being
\* itertools.islice(generator, start, None) over a generator of n items:
\* the index of the item it gives, or StopIteration
StopIteration == -1

\* next of the generator itself, not sliced
NextUnsliced(n, start, k) == IF k < n THEN k ELSE StopIteration

\* next(sliced)
NextSliced(n, start, k) == IF start + k < n THEN start + k ELSE StopIteration

\* InlineHook._call: the loop "for i in range(offset, offset + paginate)"
\* from i on, over a generator of n items
RECURSIVE InlineResults(_, _, _, _)
InlineResults(n, offset, i, stop) ==
    IF i >= stop THEN <<>>
    ELSE LET element == NextSliced(n, offset, i - offset)
         IN  IF element = StopIteration THEN <<>>
             ELSE <<[id |-> i, element |-> element]>>
                  \o InlineResults(n, offset, i + 1, stop)

\* the offsets an inline query of the sender can carry: none, or the
\* next_offset of the last answer, as the platform hands it back (a string)
QueryOffsets(sender) ==
    {""} \cup (IF issued[sender] > 0 THEN {ToString(issued[sender])} ELSE {})

\* InlineHook._after_init: the hook is made with its page size, before the
\* worker processes get it
InlineAfterInit ==
    /\ paginate = 0
    /\ paginate' \in 1..MaxPaginate
    /\ wk' = [w \in Workers |-> IdleWorker(FALSE)]
    /\ UNCHANGED <<pool, store, issued, started, notInline>>

\* Hook.call reaches InlineHook._call in worker w: self._ipc is fetched if
\* it is not set yet
InlineStart(w) ==
    \E sender \in Senders :
      \E qoffset \in QueryOffsets(sender) :
        /\ paginate > 0
        /\ wk[w].pc = "idle"
        /\ started < MaxQueries
        /\ started' = started + 1
        /\ wk' = [wk EXCEPT ![w] =
                    [pc |-> "start", sender |-> sender, qoffset |-> qoffset,
                     offset |-> 0, answer |-> NoAnswer,
                     conc |-> {v \in pool \ {w} :
                                  /\ wk[v].pc \notin {"idle", "done"}
                                  /\ wk[v].sender = sender},
                     ops |-> <<>>, ipc |-> TRUE]]
        /\ UNCHANGED <<pool, paginate, store, issued, notInline>>

\* the purge of the sender's state, for a query with the empty offset
InlinePurge(w) ==
    /\ wk[w].pc = "start"
    /\ store' = PurgedIfEmpty(store, IpcKey(wk[w].sender), wk[w].qoffset)
    /\ wk' = [wk EXCEPT ![w].pc = "purged",
                        ![w].ops = IF IssuesPurge(wk[w].qoffset)
                                   THEN Append(@, "purge") ELSE @]
    /\ UNCHANGED <<pool, paginate, issued, started, notInline>>

\* generator = bot._call(self.func, ...): the handler gives a generator
InlineHandler(w) ==
    /\ wk[w].pc = "purged"
    /\ wk' = [wk EXCEPT ![w].pc = "called", ![w].ops = Append(@, "handler")]
    /\ UNCHANGED <<pool, paginate, store, issued, started, notInline>>

\* offset = self._ipc_get(sender)
InlineGet(w) ==
    /\ wk[w].pc = "called"
    /\ wk' = [wk EXCEPT ![w].pc = "got", ![w].ops = Append(@, "get"),
                        ![w].offset = StoreGet(store, IpcKey(wk[w].sender))]
    /\ UNCHANGED <<pool, paginate, store, issued, started, notInline>>

\* self._ipc_update(sender, offset + self.paginate)
InlineUpdate(w) ==
    /\ wk[w].pc = "got"
    /\ store' = StoreUpdate(store, IpcKey(wk[w].sender),
                            wk[w].offset + paginate)
    /\ wk' = [wk EXCEPT ![w].pc = "updated", ![w].ops = Append(@, "update")]
    /\ UNCHANGED <<pool, paginate, issued, started, notInline>>

\* the page is taken from the generator, which turns out to have n items,
\* and bot.api.call("answerInlineQuery", args) sends it
InlineAnswer(w) ==
    \E n \in ItemCounts :
        /\ wk[w].pc = "updated"
        /\ wk' = [wk EXCEPT
                    ![w].pc = "done",
                    ![w].ops = Append(@, "answer"),
                    ![w].answer =
                        [results |-> InlineResults(n, wk[w].offset, wk[w].offset,
                                                   wk[w].offset + paginate),
                         next_offset |-> wk[w].offset + paginate,
                         n |-> n]]
        /\ issued' = [issued EXCEPT ![wk[w].sender] = wk[w].offset + paginate]
        /\ UNCHANGED <<pool, paginate, store, started, notInline>>

\* the call returns and the worker takes the next update
InlineReturn(w) ==
    /\ wk[w].pc = "done"
    /\ wk' = [wk EXCEPT ![w] = IdleWorker(TRUE)]
    /\ UNCHANGED <<pool, paginate, store, issued, started, notInline>>

NextInline ==
    \/ InlineAfterInit
    \/ \E w \in pool : InlineStart(w)
    \/ \E w \in pool : InlinePurge(w)
    \/ \E w \in pool : InlineHandler(w)
    \/ \E w \in pool : InlineGet(w)
    \/ \E w \in pool : InlineUpdate(w)
    \/ \E w \in pool : InlineAnswer(w)
    \/ \E w \in pool : InlineReturn(w)

\* inline queries handled by two worker processes
SpecInline == Init /\ [][NextInline]_vars

\* inline queries handled one after another, by a single worker process
InitSeq == InitBot /\ InitInline(1) /\ InitHook /\ InitBuild

SpecInlineSeq == InitSeq /\ [][NextInline]_vars

(***************************************************************************)
(* Claims about inline pagination.                                         *)
(***************************************************************************)
\* the ids of the results of the answer that worker w has sent
AnswerIds(w) ==
    {wk[w].answer.results[i].id : i \in 1..Len(wk[w].answer.results)}

\* v and w handle queries of one sender and one of the two dispatches began
\* while the other was between its start and its answer
Concurrent(v, w) ==
    /\ v # w
    /\ wk[v].pc # "idle"
    /\ wk[w].pc # "idle"
    /\ wk[v].sender = wk[w].sender
    /\ (v \in wk[w].conc \/ w \in wk[v].conc)

\* C2: two dispatches for one sender that run concurrently in two worker
\* processes never read the same offset, never answer with overlapping id
\* ranges, and leave the stored offset advanced by 2 * paginate when both
\* have finished.  Stated for two follow-up queries, where neither dispatch
\* purges the sender's state.
C2_ConcurrentDispatchesSerialized ==
    \A v, w \in pool :
        (/\ Concurrent(v, w)
         /\ wk[v].qoffset # ""
         /\ wk[w].qoffset # "")
        => /\ (/\ wk[v].pc \in {"got", "updated", "done"}
               /\ wk[w].pc \in {"got", "updated", "done"})
              => wk[v].offset # wk[w].offset
           /\ (wk[v].pc = "done" /\ wk[w].pc = "done")
              => /\ AnswerIds(v) \cap AnswerIds(w) = {}
                 /\ \E first \in {wk[v].offset, wk[w].offset} :
                        /\ first <= wk[v].offset
                        /\ first <= wk[w].offset
                        /\ StoreGet(store, wk[v].sender)
                               = first + 2 * paginate

RouterMatched ==
    /\ last.kind = "router"
    /\ CommandsReMatch(last.message.text).matched

\* C4 (as claimed): every registered name is owned by the handler that the
\* first successful registration of that name stored, whatever sequence of
\* command(name, func), command(name) and apply(func) calls was made.
C4_FirstRegistrationIntact ==
    \A name \in DOMAIN commands : commands[name] = firstOwner[name]

\* C5 (as claimed): a message "/name[@username]" followed by arguments, each
\* after a run of one or more spaces, tabs or newlines, invokes the handler
\* of a registered name exactly once with exactly those arguments, through
\* Bot._process_commands and through CommandHook.call alike.
C5_ArgsAreTheArguments ==
    /\ ( /\ last.kind = "router"
         /\ last.in.name \in DOMAIN commands
         /\ last.in.mention \in {<<>>, Username}
         /\ last.in.trailing = <<>> )
       => last.out.calls = <<[handler |-> commands[last.in.name],
                              args |-> ArgsOf(last.in)]>>
    /\ ( /\ last.kind = "hook"
         /\ last.in.name = Foo
         /\ last.in.mention \in {<<>>, Username}
         /\ last.in.trailing = <<>> )
       => last.out.calls = <<[handler |-> "f", args |-> ArgsOf(last.in)]>>

\* C6: a command message whose "@name" suffix names another bot is answered
\* with None in every chat, by the router and by a CommandHook: no handler
\* is invoked and nothing is sent.
C6_OtherBotNotApplicable ==
    ( /\ last.kind \in {"router", "hook"}
      /\ last.in.mention \in OtherNames )
    => last.out = Outcome("None", <<>>, <<>>)

\* C6 witness: /foo@botx ... has been routed in a private chat while foo is
\* registered.
C6_Witness ==
    /\ last.kind = "router"
    /\ last.chat = "User"
    /\ last.in.name = Foo
    /\ Foo \in DOMAIN commands
    /\ last.in.mention = <<"b", "o", "t", "x">>

\* C9 (as claimed): when the router takes a message for a command that is
\* neither built-in nor registered, it sends exactly one unknown-command
\* notice if the chat is private or the message carries "@" and this bot's
\* username, and nothing otherwise.
C9_UnknownCommandNotice ==
    ( /\ RouterMatched
      /\ last.in.name \notin DOMAIN GetCommands(commands)
      /\ last.in.mention \in {<<>>, Username} )
    => last.out.sent =
           IF last.chat = "User" \/ last.in.mention = Username
           THEN <<UnknownNotice(last.in.name)>>
           ELSE <<>>

\* C10: Bot.command never refuses "help" or "start" because of the built-in
\* of that name, and whenever the router takes a message for /help or
\* /start it invokes exactly one handler: the registered one if the name is
\* registered, the built-in one otherwise.
C10_UserOverridesBuiltin ==
    /\ lastReg.outcome = "NameError" => lastReg.name \in DOMAIN commands
    /\ ( /\ RouterMatched
         /\ last.in.name \in {Help, Start} )
       => /\ Len(last.out.calls) = 1
          /\ last.out.calls[1].handler =
                 IF last.in.name \in DOMAIN commands
                 THEN commands[last.in.name]
                 ELSE default_commands[last.in.name]

\* C10 witness: /start has been routed after the user registered "start",
\* and the registered handler was invoked.
C10_Witness ==
    /\ RouterMatched
    /\ last.in.name = Start
    /\ Start \in DOMAIN commands
    /\ last.out.calls[1].handler = commands[Start]

(***************************************************************************)
(* The hook chains: Bot.before_processing, Bot.process_messages,           *)
(* Bot.process, process_shipping_query and process_pre_checkout_query.     *)
(***************************************************************************)
\* the functions that the application registers as hooks
HookFuncs == {"h1", "h2"}
\* what a call of a hook gives: True, None, a true value that is not True,
\* or an exception
Results == {"True", "None", "1", "raise"}
\* the messages of the updates that the chains are run on
HelpMessage == [has_text |-> TRUE, text |-> <<"/">> \o Help]
ZedMessage == [has_text |-> TRUE, text |-> <<"/">> \o Zed]
ChainMessages == {HelpMessage, ZedMessage, Plain, NoText}
\* the hook lists that the payment chains are given
PaymentChains == UNION {[1..n -> HookFuncs] : n \in 0..MaxHooks}

\* "if result:" in place of "if result is True:"
ClaimsIfTruthy(result) == result \in {"True", "1"}

\* "if result is True:" of the three loops
Claims(result) == result = "True"

\* a loop that catches what the hook raises and goes on
Swallowed(result) == FALSE

\* the loops have no try statement: what a hook raises leaves the loop and
\* the call
Propagates(result) == result = "raise"

\* Bot.before_processing(func)
BeforeProcessing ==
    \E func \in HookFuncs \cup {NotCallable} :
        /\ Idle
        /\ Len(before_hooks) < MaxHooks
        /\ IF ~callable(func)
           THEN /\ lastReg' = RegOutcome("before_processing", <<>>, func,
                                         "ValueError")
                /\ UNCHANGED before_hooks
           ELSE /\ before_hooks' = Append(before_hooks, func)
                /\ lastReg' = RegOutcome("before_processing", <<>>, func,
                                         "stored")
        /\ UNCHANGED <<commands, processors, pc, entry, upd, chain, idx, log>>
        /\ UNCHANGED <<last, appliers, about, owner, firstOwner, inlineVars,
                     hookVars, buildVars>>

\* Bot.process_messages(func)
ProcessMessages ==
    \E func \in HookFuncs \cup {NotCallable} :
        /\ Idle
        /\ Len(processors) < MaxHooks + 1
        /\ IF ~callable(func)
           THEN /\ lastReg' = RegOutcome("process_messages", <<>>, func,
                                         "ValueError")
                /\ UNCHANGED processors
           ELSE /\ processors' = Append(processors, func)
                /\ lastReg' = RegOutcome("process_messages", <<>>, func,
                                         "stored")
        /\ UNCHANGED <<commands, before_hooks, pc, entry, upd, chain, idx, log>>
        /\ UNCHANGED <<last, appliers, about, owner, firstOwner, inlineVars,
                     hookVars, buildVars>>

\* the processors walked before the before-hooks
ProcessorsFirst(before, procs) == procs \o before

\* the list that Bot.process walks: self._before_hooks + self._processors
ProcessChain(before, procs) == before \o procs

\* Bot.process(update) is called: the isinstance check, then the loop starts
\* on the list self._before_hooks + self._processors
StartProcess ==
    \E u \in [is_update : BOOLEAN, chat : Chats, message : ChainMessages] :
        /\ Idle
        /\ entry' = "process"
        /\ upd' = u
        /\ log' = <<>>
        /\ IF ~u.is_update
           THEN /\ pc' = "raised"
                /\ chain' = <<>>
                /\ idx' = 0
           ELSE /\ pc' = "running"
                /\ chain' = ProcessChain(before_hooks, processors)
                /\ idx' = 1
        /\ UNCHANGED <<commands, before_hooks, processors, notChain>>

\* process_shipping_query or process_pre_checkout_query is called with the
\* chains of the bot
StartPayment ==
    \E e \in {"shipping_query", "pre_checkout_query"}, c \in PaymentChains :
        /\ Idle
        /\ entry' = e
        /\ upd' = [is_update |-> TRUE, chat |-> "User", message |-> NoText]
        /\ log' = <<>>
        /\ chain' = c
        /\ idx' = 1
        /\ pc' = IF c = <<>> THEN "done" ELSE "running"
        /\ UNCHANGED <<commands, before_hooks, processors, notChain>>

\* what calling the hook gives: the command router is computed, a function
\* of the application gives any result
HookOutcomes(hook) ==
    IF hook = "_process_commands"
    THEN {ProcessCommands(commands, upd.chat, upd.message, raising) :
             raising \in {{}, Builtins}}
    ELSE {Outcome(r, <<>>, <<>>) : r \in Results}

\* one turn of the loop: the next hook is called; the loop ends if it
\* returned True, if it raised, or if it was the last one
InvokeHook ==
    /\ pc = "running"
    /\ \E out \in HookOutcomes(chain[idx]) :
        /\ log' = Append(log, [hook |-> chain[idx], out |-> out])
        /\ pc' = IF Propagates(out.result) THEN "raised"
                 ELSE IF Claims(out.result) \/ idx = Len(chain) THEN "done"
                 ELSE "running"
        /\ idx' = idx + 1
    /\ UNCHANGED <<commands, before_hooks, processors, entry, upd, chain>>
    /\ UNCHANGED notChain

\* the call has returned or raised, and the application goes on
ChainReturned ==
    /\ pc \in {"done", "raised"} \/ (pc = "idle" /\ lastReg # NoReg)
    /\ pc' = "idle"
    /\ entry' = ""
    /\ upd' = NoUpdate
    /\ chain' = <<>>
    /\ idx' = 0
    /\ log' = <<>>
    /\ lastReg' = NoReg
    /\ UNCHANGED <<commands, before_hooks, processors>>
    /\ UNCHANGED <<last, appliers, about, owner, firstOwner, inlineVars,
                     hookVars, buildVars>>

Next ==
    \/ BeforeProcessing
    \/ ProcessMessages
    \/ StartProcess
    \/ StartPayment
    \/ InvokeHook
    \/ ChainReturned

Spec == Init /\ [][Next]_vars

(***************************************************************************)
(* Claims about the hook chains.                                           *)
(***************************************************************************)
\* C1: during and after every dispatch (Bot.process, process_shipping_query,
\* process_pre_checkout_query) the hooks invoked so far are the first hooks
\* of the chain, each once and in registration order; none but the last
\* invoked one has returned True; a dispatch that has returned either
\* invoked the whole chain or stopped right at the hook that returned True;
\* and Bot.process walks the before-hooks, then the processors.
C1_ChainOrder ==
    pc # "idle" =>
        /\ Len(log) <= Len(chain)
        /\ \A i \in 1..Len(log) : log[i].hook = chain[i]
        /\ \A i \in 1..(Len(log) - 1) : log[i].out.result \notin {"True", "raise"}
        /\ pc = "done" =>
               \/ Len(log) = Len(chain)
               \/ log[Len(log)].out.result = "True"
        /\ (log # <<>> /\ log[Len(log)].out.result = "True") => pc = "done"
        /\ (entry = "process" /\ upd.is_update) =>
               chain = before_hooks \o processors

\* C1 witness: Bot.process has returned from a chain of at least three hooks
\* whose second hook returned True, the third not having been invoked.
C1_Witness ==
    /\ pc = "done"
    /\ entry = "process"
    /\ Len(chain) >= 3
    /\ Len(log) = 2
    /\ log[2].out.result = "True"

(***************************************************************************)
(* The call of one hook: Hook.call and the call methods that replace it.   *)
(***************************************************************************)
MessageHooks ==
    {"ProcessMessageHook", "MessageEqualsHook", "MessageContainsHook",
     "MessageMatchesHook"}

\* the variants whose call method runs its body inside "with Context(...)":
\* only Hook.call does
WrappedByHookCall(variant) == variant \in MessageHooks

\* the variants whose call method runs its body inside "with Context(...)":
\* Hook.call, CallbackHook.call, ChatUnavailableHook.call and TimerHook.call
\* do, MemoryPreparerHook.call does not
Wrapped(variant) == variant # "MemoryPreparerHook"

\* "with Context(bot, self, update):" entering its block and leaving it
ContextEnter(c, hook) == Append(c, hook)
ContextExit(c) == SubSeq(c, 1, Len(c) - 1)

\* _only_texts of the class
OnlyTexts(variant) ==
    variant \in {"MessageEqualsHook", "MessageContainsHook", "MessageMatchesHook"}

\* the words that message texts are made of, and the configured strings
Hi == <<"h", "i">>
HiCapital == <<"H", "i">>
Yo == <<"y", "o">>
HookWords == {Hi, HiCapital, Yo}
HookStrings == {Hi, HiCapital}
\* what stands between two words of a text
HookSeps == {<<SP>>, <<SP, SP>>, <<TAB>>}

\* str.lower
LowerChar(c) == IF c = "H" THEN "h" ELSE c
Lower(s) == [i \in 1..Len(s) |-> LowerChar(s[i])]

TextInputs ==
    UNION {[words : [1..n -> HookWords], seps : [1..(n - 1) -> HookSeps],
            trailing : Trailings] : n \in 1..MaxWords}

\* the text of a message made of words, separators and a trailing part
RECURSIVE JoinFrom(_, _)
JoinFrom(in, i) ==
    IF i > Len(in.words) THEN in.trailing
    ELSE (IF i = 1 THEN <<>> ELSE in.seps[i - 1]) \o in.words[i]
         \o JoinFrom(in, i + 1)
MessageText(in) == JoinFrom(in, 1)

\* MessageEqualsHook._after_init: self._string
AfterInit(h) == IF h.ignore_case THEN Lower(h.string) ELSE h.string

\* MessageEqualsHook._prepare: the text that is compared
Prepare(h) ==
    IF h.ignore_case THEN Lower(MessageText(h.in)) ELSE MessageText(h.in)

\* the first match alone, as self._regex.search would give it
RECURSIVE FindFirst(_, _, _)
FindFirst(text, string, ignore_case) ==
    IF Len(text) < Len(string) THEN <<>>
    ELSE LET here == SubSeq(text, 1, Len(string))
         IN  IF here = string \/ (ignore_case /\ Lower(here) = Lower(string))
             THEN <<here>>
             ELSE FindFirst(Tail(text), string, ignore_case)

\* self._regex.finditer(message.text) for the regular expression "(" string
\* ")", with re.IGNORECASE among the flags or without it: the texts of the
\* matches, which do not overlap, from left to right
RECURSIVE FindIter(_, _, _)
FindIter(text, string, ignore_case) ==
    IF Len(text) < Len(string) THEN <<>>
    ELSE LET here == SubSeq(text, 1, Len(string))
         IN  IF here = string \/ (ignore_case /\ Lower(here) = Lower(string))
             THEN <<here>> \o FindIter(Drop(text, Len(string) + 1), string,
                                       ignore_case)
             ELSE FindIter(Tail(text), string, ignore_case)

\* what the body of _call goes through, one possible handler call for each:
\* the pieces of text.split(" ") in MessageContainsHook, the whole text in
\* MessageEqualsHook, and the update itself in the hooks that compare nothing
Items(h) ==
    IF h.variant = "MessageContainsHook" THEN Split(Prepare(h), SP)
    ELSE IF h.variant = "MessageEqualsHook" THEN <<Prepare(h)>>
    ELSE IF h.variant = "MessageMatchesHook"
    THEN FindIter(MessageText(h.in), h.string, h.ignore_case)
    ELSE <<<<>>>>

\* "if one != self._string: continue" and "if text != self._string: return"
ItemMatches(h, item) ==
    h.variant \in {"MessageEqualsHook", "MessageContainsHook"}
    => item = AfterInit(h)

\* the index of the first item from i on that the handler is called for,
\* 0 if there is none
RECURSIVE NextMatch(_, _)
NextMatch(h, i) ==
    IF i > Len(Items(h)) THEN 0
    ELSE IF ItemMatches(h, Items(h)[i]) THEN i
    ELSE NextMatch(h, i + 1)

\* MessageContainsHook._call without the break
StopsNever(h) == FALSE

\* MessageContainsHook._call: if not self._args["multiple"]: break
StopsAfterFirst(h) == ~h.multiple

\* Hook.call: "if self._only_texts and update.message.text is None: return";
\* CallbackHook.call: "if not update.callback_query: return" and
\* "if name != self._name: return"
ShortCircuits(h) ==
    \/ OnlyTexts(h.variant) /\ ~h.has_text
    \/ h.variant = "CallbackHook" /\ (~h.has_query \/ ~h.name_ok)

\* what the handler can do: return True, return None, or raise
HandlerResults == {"True", "None", "raise"}

\* what _call returns when its body has run to the end
ReturnValue(h) ==
    IF h.variant = "MessageContainsHook"
    THEN (IF h.res > 0 THEN "True" ELSE "False")
    ELSE IF h.variant = "MessageMatchesHook"
    THEN (IF h.calls > 0 THEN "True" ELSE "False")
    ELSE IF h.variant = "CallbackHook" THEN "True"
    ELSE IF h.calls = 0 THEN "None"
    ELSE h.result

\* the calls that can be made: a hook with its arguments and an update
HookStarts ==
    {[IdleHook EXCEPT !.pc = "body", !.variant = "ProcessMessageHook",
                      !.has_text = t] : t \in BOOLEAN}
    \cup {[IdleHook EXCEPT !.pc = "body", !.variant = v] :
            v \in {"MessageEqualsHook", "MessageContainsHook",
                   "MessageMatchesHook"}}
    \cup {[IdleHook EXCEPT !.pc = "body", !.variant = "MessageMatchesHook",
                           !.has_text = TRUE, !.in = in, !.string = str,
                           !.ignore_case = ic[1], !.multiple = ic[2]] :
            in \in TextInputs, str \in HookStrings,
            ic \in BOOLEAN \X BOOLEAN}
    \cup {[IdleHook EXCEPT !.pc = "body", !.variant = "MessageEqualsHook",
                           !.has_text = TRUE, !.in = in, !.string = str,
                           !.ignore_case = ic] :
            in \in TextInputs, str \in HookStrings, ic \in BOOLEAN}
    \cup {[IdleHook EXCEPT !.pc = "body", !.variant = "MessageContainsHook",
                           !.has_text = TRUE, !.in = in, !.string = str,
                           !.ignore_case = ic[1], !.multiple = ic[2]] :
            in \in TextInputs, str \in HookStrings,
            ic \in BOOLEAN \X BOOLEAN}
    \cup {[IdleHook EXCEPT !.pc = "body", !.variant = "CallbackHook",
                           !.has_query = q[1], !.name_ok = q[2]] :
            q \in BOOLEAN \X BOOLEAN}
    \cup {[IdleHook EXCEPT !.pc = "body", !.variant = v] :
            v \in {"MemoryPreparerHook", "ChatUnavailableHook", "TimerHook"}}

\* hook.call(...) begins: the context is entered where the method has one
HookCall ==
    /\ hk.pc = "idle"
    /\ \E start \in HookStarts :
        /\ hk' = start
        /\ ctx' = IF Wrapped(start.variant)
                  THEN ContextEnter(ctx, start.variant) ELSE ctx
    /\ UNCHANGED notHook

\* the call returns None without calling the handler
HookShortCircuit ==
    /\ hk.pc = "body"
    /\ ShortCircuits(hk)
    /\ hk' = [hk EXCEPT !.pc = "leaving", !.outcome = "None"]
    /\ UNCHANGED <<ctx, notHook>>

\* bot._call(self.func, ...) for the next item that matches; in CallbackHook
\* update.callback_query._maybe_send_noop() follows, which acknowledges the
\* query if the handler has not answered it
HandlerCall ==
    /\ hk.pc = "body"
    /\ ~ShortCircuits(hk)
    /\ NextMatch(hk, hk.pos) # 0
    /\ \E result \in HandlerResults :
       \E answered \in (IF hk.variant = "CallbackHook" THEN BOOLEAN ELSE {FALSE}) :
        LET inside == ctx # <<>> /\ ctx[Len(ctx)] = hk.variant
            called == [hk EXCEPT
                         !.calls = @ + 1, !.inctx = @ /\ inside,
                         !.answered = answered,
                         !.passed = IF hk.variant = "MessageMatchesHook"
                                    THEN Append(@, Items(hk)[NextMatch(hk, hk.pos)])
                                    ELSE @]
        IN  IF result = "raise"
            THEN hk' = [called EXCEPT !.pc = "leaving", !.outcome = "raise"]
            ELSE hk' = [called EXCEPT
                          !.res = @ + 1,
                          !.result = IF hk.variant \in {"MessageContainsHook",
                                                        "MessageMatchesHook"}
                                     THEN @ ELSE result,
                          !.noop = hk.variant = "CallbackHook" /\ ~answered,
                          !.pos = IF StopsAfterFirst(hk)
                                  THEN Len(Items(hk)) + 1
                                  ELSE NextMatch(hk, hk.pos) + 1]
    /\ UNCHANGED <<ctx, notHook>>

\* the body of the call has nothing more to do and returns
HookBodyReturn ==
    /\ hk.pc = "body"
    /\ ~ShortCircuits(hk)
    /\ NextMatch(hk, hk.pos) = 0
    /\ hk' = [hk EXCEPT !.pc = "leaving", !.outcome = ReturnValue(hk)]
    /\ UNCHANGED <<ctx, notHook>>

\* the with statement is left, by a return or by the exception
HookExit ==
    /\ hk.pc = "leaving"
    /\ ctx' = IF Wrapped(hk.variant) THEN ContextExit(ctx) ELSE ctx
    /\ hk' = [hk EXCEPT !.pc = "ended"]
    /\ UNCHANGED notHook

\* the caller has the outcome and goes on
HookReturned ==
    /\ hk.pc = "ended"
    /\ hk' = IdleHook
    /\ UNCHANGED <<ctx, notHook>>

NextHook ==
    \/ HookCall
    \/ HookShortCircuit
    \/ HandlerCall
    \/ HookBodyReturn
    \/ HookExit
    \/ HookReturned

SpecHook == Init /\ [][NextHook]_vars

(***************************************************************************)
(* Claims about the call of a hook.                                        *)
(***************************************************************************)
\* the context of the hook is the innermost one while the call runs, every
\* handler call was made inside it, and it is left when the call has ended
Scoped ==
    /\ hk.pc \in {"body", "leaving"} => ctx = <<hk.variant>>
    /\ hk.inctx
    /\ hk.pc = "ended" => ctx = <<>>

\* C7 as stated: every hook invocation, for every hook variant, runs inside
\* a context that is entered before the handler runs and is released when
\* the invocation has ended, however it ended.
C7_EveryVariantScoped ==
    hk.pc # "idle" => Scoped

\* C7: every hook invocation of a variant other than MemoryPreparerHook runs
\* inside a context that is entered before the handler runs and is released
\* when the invocation has ended, by a return, a short-circuit or a failure
\* of the handler; MemoryPreparerHook.call enters no context at all.
C7_ScopedExceptMemoryPreparer ==
    hk.pc # "idle"
    => IF hk.variant = "MemoryPreparerHook"
       THEN ctx = <<>> /\ (hk.calls > 0 => ~hk.inctx)
       ELSE Scoped

\* a timer hook's handler has raised inside the context and the context is
\* released
C7_Witness ==
    /\ hk.pc = "ended"
    /\ hk.variant = "TimerHook"
    /\ hk.outcome = "raise"
    /\ hk.calls = 1
    /\ hk.inctx
    /\ ctx = <<>>

\* whether a word is the configured token, case folded if ignore_case is set
WordIsToken(h, word) ==
    IF h.ignore_case THEN Lower(word) = Lower(h.string) ELSE word = h.string

SpacesOnly(sep) == \A i \in 1..Len(sep) : sep[i] = SP

\* the number of words of the text that are the token
KWords(h) ==
    Cardinality({i \in 1..Len(h.in.words) : WordIsToken(h, h.in.words[i])})

\* the number of words of the text that are the token and have nothing but
\* spaces or an end of the text on either side
KSpaceDelimited(h) ==
    Cardinality({i \in 1..Len(h.in.words) :
        /\ WordIsToken(h, h.in.words[i])
        /\ i > 1 => SpacesOnly(h.in.seps[i - 1])
        /\ IF i < Len(h.in.words) THEN SpacesOnly(h.in.seps[i])
           ELSE h.in.trailing = <<>>})

\* a MessageContains call on a message with text has returned
ContainsReturned ==
    /\ hk.variant = "MessageContainsHook"
    /\ hk.has_text
    /\ hk.pc \in {"leaving", "ended"}
    /\ hk.outcome # "raise"

\* the handler calls and the outcome that go with k occurrences
CountsFor(k) ==
    /\ hk.calls = (IF k = 0 THEN 0 ELSE IF hk.multiple THEN k ELSE 1)
    /\ hk.outcome = (IF hk.calls >= 1 THEN "True" ELSE "False")

Abouts == {"", "About this bot."}
Owners == {"", "@owner"}

\* the application sets bot.about and bot.owner
Configure ==
    \E a \in Abouts, o \in Owners :
        /\ Idle
        /\ <<a, o>> # <<about, owner>>
        /\ about' = a
        /\ owner' = o
        /\ UNCHANGED <<commands, appliers, firstOwner, lastReg, last, notCmd>>

\* the arguments a /help message is sent with, each after one space
HelpArgNames == {Foo, Start, Zed}
HelpArgs == UNION {[1..n -> HelpArgNames] : n \in 0..MaxArgs}

RECURSIVE SpaceJoined(_)
SpaceJoined(args) ==
    IF args = <<>> THEN <<>>
    ELSE <<SP>> \o Head(args) \o SpaceJoined(Tail(args))

\* Bot._process_commands on a message "/help", "/help <name>", ...
RouteHelp ==
    \E args \in HelpArgs, chat \in Chats :
        LET message ==
                [has_text |-> TRUE, text |-> <<"/">> \o Help \o SpaceJoined(args)]
        IN  /\ Idle
            /\ last' = Routed("help", [name |-> Help, args |-> args], chat,
                              message,
                              ProcessCommands(commands, chat, message, {}))
            /\ lastReg' = NoReg
            /\ UNCHANGED <<commands, appliers, about, owner, firstOwner, notCmd>>

NextHelp ==
    \/ CommandDirect
    \/ Configure
    \/ RouteHelp
    \/ Returned

SpecHelp == Init /\ [][NextHelp]_vars

\* the built-in help has answered a /help message with n arguments
HelpAnswered(n) ==
    /\ last.kind = "help"
    /\ Help \notin DOMAIN commands
    /\ Len(last.in.args) = n

\* the lines of a reply that list a command
IsListing(line) == line.fmt = "/%s - %s"
OwnerFooter ==
    Line("Please contact %s if you have problems with this bot.", <<>>, owner)

\* C11 (as claimed): "/help" without arguments sends one reply that lists
\* every available command, the built-in ones and the registered ones, once
\* each in ascending order of name with the first line of its documentation,
\* and that ends with the owner's line iff an owner is set; for every set of
\* registered commands, the empty one included.
C11_HelpListsEveryCommand ==
    HelpAnswered(0)
    => /\ Len(last.out.sent) = 1
       /\ LET reply == last.out.sent[1]
              listing == SelectSeq(reply, IsListing)
              names == Sorted(DOMAIN GetCommands(commands))
          IN  /\ Len(listing) = Len(names)
              /\ \A i \in 1..Len(names) :
                    /\ listing[i].name = names[i]
                    /\ listing[i].doc =
                         IF Doc(GetCommands(commands)[names[i]]) = <<>>
                         THEN "No description available."
                         ELSE Doc(GetCommands(commands)[names[i]])[1]
              /\ (owner # "") <=> (reply[Len(reply)] = OwnerFooter)

\* C12: "/help <name>" for a name that is neither built-in nor registered
\* sends one reply of the two lines "Error: Unknow command: /<name>" and
\* "Use /help for a list of commands.", invokes the help handler and no
\* other, and the router returns True.
C12_HelpOfUnknownCommand ==
    ( /\ HelpAnswered(1)
      /\ last.in.args[1] \notin DOMAIN GetCommands(commands) )
    => /\ last.out.sent =
              <<<<Line("Error: Unknow command: /%s", last.in.args[1], ""),
                  Line("Use /help for a list of commands.", <<>>, "")>>>>
       /\ last.out.calls =
              <<[handler |-> "_default_help_command", args |-> last.in.args]>>
       /\ last.out.result = "True"

\* /help zed has been answered while foo is registered and an owner is set
C12_Witness ==
    /\ HelpAnswered(1)
    /\ last.in.args[1] = Zed
    /\ Foo \in DOMAIN commands
    /\ owner # ""
    /\ last.out.result = "True"
    /\ Len(last.out.sent) = 1

(***************************************************************************)
(* Claims about CallbackHook.                                              *)
(***************************************************************************)
\* C13 (as claimed): when the call of a callback hook has ended and its
\* handler was invoked, the query is acknowledged, by the handler's answer
\* or by a no-op acknowledgment, which is sent iff the handler did not
\* answer; this on every way out of the call, a failure of the handler
\* included.  A hook that is given another name, or no callback query,
\* invokes no handler and sends no acknowledgment.
C13_CallbackAcknowledged ==
    (hk.variant = "CallbackHook" /\ hk.pc = "ended")
    => IF hk.has_query /\ hk.name_ok
       THEN /\ hk.calls = 1
            /\ hk.answered \/ hk.noop
            /\ hk.noop <=> ~hk.answered
       ELSE /\ hk.calls = 0
            /\ ~hk.noop
            /\ ~hk.answered

(***************************************************************************)
(* Claims about the steps of an inline dispatch.                           *)
(***************************************************************************)
\* the store commands and the answer among the calls of a dispatch
IsStoreOrAnswer(op) == op # "handler"

\* the order claimed for a query with the given offset
ClaimedOrder(qoffset) ==
    (IF qoffset = "" THEN <<"purge">> ELSE <<>>) \o <<"get", "update", "answer">>

IsPrefix(a, b) == Len(a) <= Len(b) /\ a = SubSeq(b, 1, Len(a))

\* C14: at every moment of every dispatch, in whatever way the dispatches of
\* the worker processes interleave, the store commands and the answer made
\* so far are the beginning of: purge (only for an empty query offset), get,
\* update, answerInlineQuery; so no answer goes out before the dispatch has
\* written the advanced offset, and the value written is the offset read
\* plus paginate.
C14_DispatchStepOrder ==
    /\ [](\A w \in pool :
            wk[w].pc # "idle"
            => LET done == SelectSeq(wk[w].ops, IsStoreOrAnswer)
               IN  /\ IsPrefix(done, ClaimedOrder(wk[w].qoffset))
                   /\ wk[w].pc = "done"
                      => done = ClaimedOrder(wk[w].qoffset))
    /\ [][\A w \in pool :
            Len(wk'[w].ops) > Len(wk[w].ops)
            => LET op == wk'[w].ops[Len(wk'[w].ops)]
               IN  /\ op = "purge" => wk[w].sender \notin DOMAIN store'
                   /\ op = "get"
                      => wk'[w].offset = StoreGet(store, wk[w].sender)
                   /\ op = "update"
                      => StoreGet(store', wk[w].sender)
                             = wk[w].offset + paginate
                   /\ op = "answer"
                      => wk'[w].answer.next_offset = wk[w].offset + paginate
                   /\ op # "purge" /\ op # "update" => store' = store]_vars

\* a follow-up query has been answered by one worker while the other worker
\* handled a query of the same sender
C14_Witness ==
    \E w \in pool :
        /\ wk[w].pc = "done"
        /\ wk[w].qoffset # ""
        /\ wk[w].conc # {}
        /\ wk[w].ops = <<"handler", "get", "update", "answer">>

\* C15: a dispatch that has read offset o, with page size p and a handler
\* sequence of n items, answers with min(p, max(0, n - o)) results, which are
\* the items at the indices o, o + 1, ... of the sequence in that order, each
\* with its index as id.
C15_PageIsTheSlice ==
    \A w \in pool :
        wk[w].pc = "done"
        => LET a == wk[w].answer
               o == wk[w].offset
               left == IF a.n > o THEN a.n - o ELSE 0
           IN  /\ Len(a.results) = (IF paginate < left THEN paginate ELSE left)
               /\ \A i \in 1..Len(a.results) :
                     a.results[i] = [id |-> o + i - 1, element |-> o + i - 1]

\* a last page that is not full has been sent: one item from offset 2
C15_Witness ==
    \E w \in pool :
        /\ wk[w].pc = "done"
        /\ wk[w].offset = 2
        /\ paginate = 2
        /\ wk[w].answer.n = 3
        /\ wk[w].answer.results = <<[id |-> 2, element |-> 2]>>

\* the entry of sender x in the pagination state, if there is one
Entry(st, x) == IF x \in DOMAIN st THEN <<st[x]>> ELSE <<>>

\* C16: whatever step a dispatch for a sender takes, and however the
\* dispatches of the worker processes interleave, the entry of every other
\* sender in the pagination state stays as it is, and the offset that the
\* dispatch reads is the one of its own sender.
C16_OtherSendersUntouched ==
    [][\A w \in pool :
        wk'[w] # wk[w]
        => LET a == IF wk[w].sender # "" THEN wk[w].sender ELSE wk'[w].sender
           IN  /\ \A b \in Senders \ {a} : Entry(store', b) = Entry(store, b)
               /\ (wk[w].pc = "called" /\ wk'[w].pc = "got")
                  => wk'[w].offset = (IF Entry(store, a) = <<>> THEN 0
                                      ELSE store[a])]_vars

\* two dispatches for different senders have both written their offsets
C16_Witness ==
    \E v, w \in pool :
        /\ wk[v].sender = "A"
        /\ wk[w].sender = "B"
        /\ wk[v].pc = "updated"
        /\ wk[w].pc = "updated"
        /\ "A" \in DOMAIN store
        /\ "B" \in DOMAIN store

(***************************************************************************)
(* Claims about MessageEqualsHook.                                         *)
(***************************************************************************)
\* the text of the message is the configured string: one word that is the
\* string, case folded if ignore_case is set, and nothing after it
TextIsString(h) ==
    /\ Len(h.in.words) = 1
    /\ h.in.trailing = <<>>
    /\ WordIsToken(h, h.in.words[1])

\* C17 (as claimed): a MessageEquals hook on a message with text returns
\* True iff the text equals the configured string, both case folded when
\* ignore_case is set; it calls the handler once in that case and not at all
\* otherwise, whatever the handler returns.
C17_EqualsClaimsIffEqual ==
    ( /\ hk.variant = "MessageEqualsHook"
      /\ hk.has_text
      /\ hk.pc = "ended"
      /\ hk.outcome # "raise" )
    => IF TextIsString(hk)
       THEN hk.calls = 1 /\ hk.outcome = "True"
       ELSE hk.calls = 0 /\ hk.outcome # "True"

(***************************************************************************)
(* Claims about MessageMatchesHook.                                        *)
(***************************************************************************)
\* the words of the text that the pattern matches, from left to right
MatchedWords(h) ==
    LET Matches(word) == WordIsToken(h, word)
    IN  SelectSeq(h.in.words, Matches)

\* C18: a MessageMatches hook on a message whose text has m matches of the
\* pattern calls the handler m times when multiple is set, in the order of
\* the matches and each time with the groups of that match, and min(m, 1)
\* times, for the first match, otherwise; it returns True iff m >= 1.
C18_MatchesCallsPerMatch ==
    ( /\ hk.variant = "MessageMatchesHook"
      /\ hk.has_text
      /\ hk.pc = "ended"
      /\ hk.outcome # "raise" )
    => LET ms == MatchedWords(hk)
           m == Len(ms)
       IN  /\ hk.calls = (IF hk.multiple THEN m ELSE IF m >= 1 THEN 1 ELSE 0)
           /\ hk.passed = SubSeq(ms, 1, hk.calls)
           /\ hk.outcome = (IF m >= 1 THEN "True" ELSE "False")

\* with re.IGNORECASE and multiple set, the handler has been called for "hi"
\* and then for "Hi"
C18_Witness ==
    /\ hk.variant = "MessageMatchesHook"
    /\ hk.pc = "ended"
    /\ hk.multiple
    /\ hk.ignore_case
    /\ hk.passed = <<Hi, HiCapital>>
    /\ hk.outcome = "True"

(***************************************************************************)
(* Command names at registration.                                          *)
(***************************************************************************)
\* names a command can be registered with: a valid one, one with a dash, the
\* empty one, and a valid one followed by a newline
Dashed == <<"f", "-", "o">>
AnyNames == {Foo, Dashed, <<>>, Foo \o <<NL>>}

\* CommandHook._after_init: re.match(r'^[a-zA-Z0-9_]+$', args["name"])
NameReMatch(name) ==
    LET m == NameLen(name, 1)
    IN  m > 0 /\ AtDollar(Drop(name, m + 1))

\* Bot.command(name, func) with any name: the check, then apply(func)
CommandAnyName ==
    \E name \in AnyNames, func \in UserHandlers \cup {NotCallable} :
        /\ Idle
        /\ IF name \in DOMAIN commands
           THEN /\ lastReg' = RegOutcome("command", name, func, "NameError")
                /\ UNCHANGED <<commands, firstOwner>>
           ELSE IF ~callable(func)
           THEN /\ lastReg' = RegOutcome("command", name, func, "ValueError")
                /\ UNCHANGED <<commands, firstOwner>>
           ELSE /\ commands' = ApplyStore(commands, name, func)
                /\ firstOwner' = NoteOwner(name, func)
                /\ lastReg' = RegOutcome("command", name, func, "stored")
        /\ last' = NoLast
        /\ UNCHANGED <<appliers, about, owner, notCmd>>

\* CommandHook(func, component, {"name": name}): Hook.__init__ calls
\* _after_init, which raises ValueError or prepares the hook
CommandHookInit ==
    \E name \in AnyNames, func \in UserHandlers :
        /\ Idle
        /\ lastReg' = RegOutcome("CommandHook", name, func,
                                 IF NameReMatch(name) THEN "constructed"
                                 ELSE "ValueError")
        /\ last' = NoLast
        /\ UNCHANGED <<commands, appliers, about, owner, firstOwner, notCmd>>

NextNames ==
    \/ CommandAnyName
    \/ CommandHookInit
    \/ Returned

SpecNames == Init /\ [][NextNames]_vars

\* the name is one or more characters of [a-zA-Z0-9_] and nothing else
ValidName(name) ==
    /\ name # <<>>
    /\ \A i \in 1..Len(name) : name[i] \in NameChars

\* C19 (as claimed): registering a command under a name that is not one or
\* more characters of [a-zA-Z0-9_] fails with the invalid-name error, when a
\* CommandHook is constructed and when Bot.command is called, and no such
\* name is ever among the commands.
C19_InvalidNamesRejected ==
    /\ \A name \in DOMAIN commands : ValidName(name)
    /\ ( /\ lastReg.op \in {"command", "CommandHook"}
         /\ ~ValidName(lastReg.name) )
       => lastReg.outcome = "ValueError"

(***************************************************************************)
(* Registration calls with a handler that is not callable.                 *)
(***************************************************************************)
NextRegister ==
    \/ BeforeProcessing
    \/ ProcessMessages
    \/ CommandDirect
    \/ CommandDecorator
    \/ Apply
    \/ ChainReturned

SpecRegister == Init /\ [][NextRegister]_vars

RegistrationErrors == {"ValueError", "NameError"}

\* C20: a call of before_processing, process_messages, command or of the
\* closure that command returned, given a handler that is not callable,
\* raises ValueError (NameError when the command name is taken) and leaves
\* the before-hook list, the processor list and the command registry as they
\* were; once the error is handled the bot is between two calls again, with
\* the same lists, so that every registration and dispatch is possible as
\* before.
C20_NonCallableRejected ==
    [][ /\ (lastReg' # lastReg /\ lastReg'.func = NotCallable)
           => /\ lastReg'.outcome \in RegistrationErrors
              /\ lastReg'.outcome = "NameError"
                 => lastReg'.name \in DOMAIN commands
              /\ UNCHANGED <<before_hooks, processors, commands, appliers>>
        /\ (lastReg.func = NotCallable /\ lastReg' # lastReg)
           => /\ Idle'
              /\ UNCHANGED <<before_hooks, processors, commands, appliers>>
        /\ \A i \in 1..Len(before_hooks) : before_hooks[i] # NotCallable
        /\ \A i \in 1..Len(processors) : processors[i] # NotCallable
        /\ \A name \in DOMAIN commands : commands[name] # NotCallable ]_vars

\* the closure of command("foo") has refused a handler that is not callable
\* while both lists and the registry hold handlers
C20_Witness ==
    /\ lastReg.op = "apply"
    /\ lastReg.func = NotCallable
    /\ lastReg.outcome = "ValueError"
    /\ Len(before_hooks) >= 1
    /\ Len(processors) >= 2
    /\ DOMAIN commands # {}

(***************************************************************************)
(* Claims about a handler that raises during the dispatch of an update.    *)
(***************************************************************************)
\* the dispatch of an update by Bot.process in which a hook has raised
HookRaised ==
    /\ entry = "process"
    /\ log # <<>>
    /\ log[Len(log)].out.result = "raise"

\* C21: if a handler raises during the dispatch of an update by Bot.process,
\* the call raises too (it does not return); the hook that raised is the last
\* one invoked for that update, also once the call is over; no reply is sent
\* at or after the failure (the command router sends nothing when the
\* handler it called raised, the loop itself sends nothing); and the failure
\* changes no registration: the chain is still the before-hooks followed by
\* the processors, which the step that ends the call leaves as they are, so
\* the next update walks the same chain.
C21_RaisePropagates ==
    /\ [](HookRaised =>
            /\ pc = "raised"
            /\ log[Len(log)].out.sent = <<>>
            /\ \A i \in 1..(Len(log) - 1) : log[i].out.result # "raise"
            /\ chain = before_hooks \o processors)
    /\ [][HookRaised =>
            /\ pc' = "idle"
            /\ log' = <<>>
            /\ before_hooks' = before_hooks
            /\ processors' = processors
            /\ commands' = commands]_vars

\* C21 witness: the first of at least three hooks raised, and so did the
\* call, the hooks after it not having been invoked.
C21_Witness ==
    /\ HookRaised
    /\ pc = "raised"
    /\ Len(log) = 1
    /\ Len(chain) >= 3

(***************************************************************************)
(* Claims about the place of the command router in the chain.              *)
(***************************************************************************)
\* Bot.process is dispatching, or has dispatched, an update
Dispatching == entry = "process" /\ upd.is_update /\ pc # "idle"

\* the place of the command router in the walk of Bot.process
RouterAt == Len(before_hooks) + 1

\* C22: whatever was registered with before_processing and process_messages,
\* the command router is the first processor and nothing else in the two
\* lists; in a dispatch by Bot.process the k-th hook invoked is the k-th
\* before-hook for k up to their number, the next one invoked is the command
\* router, and those invoked after it are the processors of the application
\* in registration order; when the router matched a command and returned
\* True no processor of the application was invoked; and when a before-hook
\* returned True the router was not invoked.
C22_RouterBetween ==
    /\ processors # <<>>
    /\ processors[1] = "_process_commands"
    /\ \A i \in 2..Len(processors) : processors[i] \in HookFuncs
    /\ \A i \in 1..Len(before_hooks) : before_hooks[i] \in HookFuncs
    /\ Dispatching =>
        /\ \A k \in 1..Len(log) :
               /\ k < RouterAt => log[k].hook = before_hooks[k]
               /\ k = RouterAt => log[k].hook = "_process_commands"
               /\ k > RouterAt => log[k].hook = processors[k - RouterAt + 1]
        /\ (Len(log) >= RouterAt /\ log[RouterAt].out.result = "True") =>
               /\ log[RouterAt].out.calls # <<>>
               /\ Len(log) = RouterAt
               /\ pc = "done"
        /\ (\E k \in 1..Len(log) : k < RouterAt /\ log[k].out.result = "True") =>
               /\ Len(log) < RouterAt
               /\ pc = "done"

\* C22 witness: two before-hooks were invoked and claimed nothing, then the
\* router matched a command and claimed the update, and the registered
\* processor of the application was not invoked.
C22_Witness ==
    /\ Dispatching
    /\ pc = "done"
    /\ Len(before_hooks) = 2
    /\ Len(processors) >= 2
    /\ Len(log) = 3
    /\ log[3].hook = "_process_commands"
    /\ log[3].out.result = "True"

(***************************************************************************)
(* The construction of hooks: Hook.__init__, the _after_init of each       *)
(* class, Hook.__reduce__ and rebuild.                                     *)
(***************************************************************************)
\* the most hooks that are constructed
MaxBuilt == 2

\* the components: the root one, whose name is empty, and two named ones;
\* each has its own _component_id
RootComponent == [component_name |-> <<>>, component_id |-> "id0"]
Components ==
    {RootComponent,
     [component_name |-> <<"a">>, component_id |-> "id1"],
     [component_name |-> <<"a", ":", "b">>, component_id |-> "id2"]}

\* the names that callbacks are declared with
CallbackNames == {<<"c">>, <<"b", ":", "c">>}

\* the classes of hooks that are constructed
HookClasses ==
    {"ProcessMessageHook", "MessageEqualsHook", "CommandHook", "CallbackHook"}

\* args=None
NoArgs == [none |-> TRUE]

\* the construction parameters that each class is given
ArgsFor(cls) ==
    CASE cls = "MessageEqualsHook" ->
             [string : HookStrings, ignore_case : BOOLEAN]
      [] cls = "CommandHook" ->
             [name : {Foo, Dashed}]
             \cup [name : {Foo}, hidden : {TRUE}, order : {5}]
      [] cls = "CallbackHook" -> [name : CallbackNames]
      [] OTHER -> {NoArgs}

\* func.__name__
FuncName(func) == <<func>>

\* the prefix of Hook.__init__: nothing for a component without a name
Prefix(component) ==
    IF component.component_name # <<>>
    THEN component.component_name \o <<":", ":">>
    ELSE <<>>

\* "%s:%s" % (self.component.component_name, args["name"])
CallbackFormat(component_name, name) == component_name \o <<":">> \o name

\* hashed_callback_name: taken to be injective, each string has its own hash
hashed_callback_name(string) == [hash_of |-> string]

\* _after_init of each class: the attributes that it sets
HookAfterInit(cls, component, args) ==
    CASE cls = "MessageEqualsHook" -> [string |-> AfterInit(args)]
      [] cls = "CommandHook" ->
             [regex |-> args.name,
              name |-> args.name,
              hidden |-> IF "hidden" \in DOMAIN args THEN args.hidden
                         ELSE FALSE,
              order |-> IF "order" \in DOMAIN args THEN args.order ELSE 0]
      [] cls = "CallbackHook" ->
             [name |-> hashed_callback_name(
                           CallbackFormat(component.component_name,
                                          args.name))]
      [] OTHER -> [none |-> TRUE]

\* CommandHook._after_init raises ValueError for a name that the check
\* refuses
InitRaises(cls, args) == cls = "CommandHook" /\ ~NameReMatch(args.name)

\* Hook.__init__(func, component, args): the object it makes
HookInit(cls, func, component, args) ==
    [cls |-> cls,
     func |-> func,
     name |-> Prefix(component) \o FuncName(func),
     component |-> component,
     component_id |-> component.component_id,
     args |-> args,
     attrs |-> HookAfterInit(cls, component, args)]

\* a __reduce__ that names the root component in place of the hook's own
ReduceToRoot(hook) ==
    [cls |-> hook.cls, func |-> hook.func, component |-> RootComponent,
     args |-> hook.args]

\* Hook.__reduce__: the arguments that rebuild is to be called with
Reduce(hook) ==
    [cls |-> hook.cls, func |-> hook.func, component |-> hook.component,
     args |-> hook.args]

\* rebuild(cls, func, component, args)
rebuild(ref) == HookInit(ref.cls, ref.func, ref.component, ref.args)

\* a hook is constructed
NewHook ==
    \E cls \in HookClasses, func \in UserHandlers, component \in Components :
        \E args \in ArgsFor(cls) :
            /\ Len(hooks) < MaxBuilt
            /\ IF InitRaises(cls, args)
               THEN UNCHANGED hooks
               ELSE hooks' = Append(hooks, HookInit(cls, func, component, args))
            /\ UNCHANGED <<rebuilt, notBuild>>

\* a hook is serialized and reconstructed: rebuild is called with what
\* __reduce__ gave
Reconstruct ==
    \E i \in 1..Len(hooks) :
        /\ rebuilt = <<>>
        /\ rebuilt' = <<[from |-> i, hook |-> rebuild(Reduce(hooks[i]))]>>
        /\ UNCHANGED <<hooks, notBuild>>

NextBuild ==
    \/ NewHook
    \/ Reconstruct

SpecBuild == Init /\ [][NextBuild]_vars

\* the updates that constructed hooks are compared on: the text of the
\* message and the name that a callback query carries
BuildUpdates ==
    [text : {Hi, HiCapital, <<"/">> \o Foo, <<"/">> \o Foo \o <<SP>> \o Bar},
     name : {hashed_callback_name(CallbackFormat(c.component_name, n)) :
                c \in Components, n \in CallbackNames}]

\* the calls of the handler that the hook makes on an update: the function,
\* the component id it is called with, and the arguments
Invocations(hook, u) ==
    LET once == <<[func |-> hook.func, component_id |-> hook.component_id,
                   args |-> <<>>]>>
    IN  CASE hook.cls = "MessageEqualsHook" ->
                 IF (IF hook.args.ignore_case THEN Lower(u.text) ELSE u.text)
                        = hook.attrs.string
                 THEN once ELSE <<>>
          [] hook.cls = "CommandHook" ->
                 LET out == CommandHook_call(hook.attrs.name, hook.func,
                                [has_text |-> TRUE, text |-> u.text])
                 IN  [k \in 1..Len(out.calls) |->
                         [func |-> out.calls[k].handler,
                          component_id |-> hook.component_id,
                          args |-> out.calls[k].args]]
          [] hook.cls = "CallbackHook" ->
                 IF u.name # hook.attrs.name THEN <<>> ELSE once
          [] OTHER -> once

(***************************************************************************)
(* Claims about the construction of hooks.                                 *)
(***************************************************************************)
\* C23: two callback hooks with the same token have the same component name
\* and the same declared callback name, the hash being injective.
C23_TokenDistinguishesPairs ==
    \A i, j \in 1..Len(hooks) :
        (/\ hooks[i].cls = "CallbackHook"
         /\ hooks[j].cls = "CallbackHook"
         /\ hooks[i].attrs.name = hooks[j].attrs.name) =>
            /\ hooks[i].component.component_name
                   = hooks[j].component.component_name
            /\ hooks[i].args.name = hooks[j].args.name

\* the qualified name: the component's name and "::" before the name of the
\* handler, the handler's name alone for the root component
QualifiedName(component_name, func) ==
    IF component_name = <<>>
    THEN <<func>>
    ELSE component_name \o <<":", ":">> \o <<func>>

UnknownCommand ==
    /\ Dispatching
    /\ upd.message.has_text
    /\ CommandsReMatch(upd.message.text).matched
    /\ CommandsReMatch(upd.message.text).command
           \notin DOMAIN GetCommands(commands)

\* the router has been invoked in this dispatch
RouterInvoked == Len(log) >= RouterAt

\* C25 as stated: after the dispatch of a message naming an unknown command
\* in which the router was invoked, the router has returned None and every
\* processor registered after it has been invoked.
C25_EveryLaterProcessorInvoked ==
    (UnknownCommand /\ RouterInvoked /\ pc = "done") =>
        /\ log[RouterAt].out.result = "None"
        /\ Len(log) = Len(chain)

\* C25 amended: for a message naming an unknown command the router calls no
\* handler and returns None, with the notice sent or not; the walk goes on
\* past the router, so the processor registered right after it is invoked,
\* and the processors after the router are invoked in registration order up
\* to the first of them that returns True or raises.
C25_UnknownNeverClaims ==
    (UnknownCommand /\ RouterInvoked) =>
        /\ log[RouterAt].out.result = "None"
        /\ log[RouterAt].out.calls = <<>>
        /\ log[RouterAt].out.sent \in
               {<<>>,
                <<UnknownNotice(CommandsReMatch(upd.message.text).command)>>}
        /\ (upd.chat = "User") => log[RouterAt].out.sent # <<>>
        /\ (Len(log) = RouterAt /\ Len(chain) > RouterAt) => pc = "running"
        /\ pc = "done" =>
               \/ Len(log) = Len(chain)
               \/ Len(log) > RouterAt /\ log[Len(log)].out.result = "True"
        /\ pc = "raised" =>
               Len(log) > RouterAt /\ log[Len(log)].out.result = "raise"

\* C25 witness: the router sent the notice for an unknown command, and the
\* two processors registered after it were both invoked.
C25_Witness ==
    /\ UnknownCommand
    /\ pc = "done"
    /\ Len(chain) = RouterAt + 2
    /\ Len(log) = Len(chain)
    /\ log[RouterAt].out.sent # <<>>

====
